---- MODULE Spec2Model ----
(***************************************************************************)
(* Model of psychologist_bot/bot.py: the stream listener's on_update       *)
(* handler (eligibility filter, sampler, field extraction, strip_html,     *)
(* Gemini call, response classification, reply composition, primary post   *)
(* and fallback apology post) and the main streaming loop around it.       *)
(*                                                                         *)
(* Raw status content is a sequence of one-character strings.  Texts that  *)
(* are only concatenated, measured and sliced (the handle, the generated   *)
(* body, the fixed sentences) are run-length strings: sequences of         *)
(* segments [k |-> kind, n |-> number of characters].                      *)
(***************************************************************************)
EXTENDS Integers, Sequences, FiniteSets, TLC

\* ------------------------------------------------------------------------
\* Bounds of the model
\* ------------------------------------------------------------------------
MaxEvents == 2

\* longest content string of the exhaustive strip_html inputs
MaxStrLen == 5

\* ------------------------------------------------------------------------
\* Program constants
\* ------------------------------------------------------------------------
\* the account id returned by account_verify_credentials()
BOT_ACCOUNT_ID == 1

\* random.random() > 0.95, in hundredths
DropThreshold == 95

max_len == 490

EllipsisLen == 3

SafetySentenceLen == 72

TroubleSentenceLen == 61

ApologySentenceLen == 64

\* ------------------------------------------------------------------------
\* Character-level strings: html.unescape and the regular expressions of
\* strip_html
\* ------------------------------------------------------------------------
Letters == {"a", "m", "p", "l", "t"}

IsWord(c) == c \in Letters \cup {"_"}

IsSpace(c) == c \in {" ", "\n"}

\* the entries of html.entities.html5 that can be spelled with Letters
Html5Has(s) ==
    s \in { <<"a","m","p">>, <<"a","m","p",";">>, <<"l","t">>, <<"l","t",";">>,
            <<"a","p",";">>, <<"l","a","p",";">>, <<"l","a","t",";">>,
            <<"l","l",";">>, <<"m","a","l","t",";">>, <<"m","a","p",";">>,
            <<"m","p",";">>, <<"p","m",";">> }

Html5(s) ==
    CASE s \in { <<"a","m","p">>, <<"a","m","p",";">> } -> "&"
      [] s \in { <<"l","t">>, <<"l","t",";">> }         -> "<"
      [] s = <<"a","p",";">>                            -> "{ap}"
      [] s = <<"l","a","p",";">>                        -> "{lap}"
      [] s = <<"l","a","t",";">>                        -> "{lat}"
      [] s = <<"l","l",";">>                            -> "{ll}"
      [] s = <<"m","a","l","t",";">>                    -> "{malt}"
      [] s = <<"m","a","p",";">>                        -> "{map}"
      [] s = <<"m","p",";">>                            -> "{mp}"
      [] OTHER                                          -> "{pm}"

\* [^\t\n\f <&#;]
IsRefNameChar(c) == c \notin {"\n", " ", "<", "&", "#", ";"}

\* number of characters from position i on that satisfy the greedy run
\* P(c)+ / P(c)*, at most max of them
RECURSIVE RunLen(_, _, _, _)
RunLen(s, i, kind, max) ==
    IF max = 0 \/ i > Len(s) THEN 0
    ELSE LET c == s[i]
             ok == CASE kind = "ref"  -> IsRefNameChar(c)
                      [] kind = "word" -> IsWord(c)
                      [] kind = "dom"  -> IsWord(c) \/ c \in {"-", "."}
                      [] OTHER         -> c # ">"
         IN IF ok THEN 1 + RunLen(s, i + 1, kind, max - 1) ELSE 0

\* replace_charref for a named reference s (the text after "&")
RECURSIVE LongestPrefix(_, _)
LongestPrefix(s, x) ==
    IF x < 2 THEN 0
    ELSE IF Html5Has(SubSeq(s, 1, x)) THEN x
    ELSE LongestPrefix(s, x - 1)

replace_charref(s) ==
    IF Html5Has(s) THEN << Html5(s) >>
    ELSE LET x == LongestPrefix(s, Len(s) - 1)
         IN IF x > 0
            THEN << Html5(SubSeq(s, 1, x)) >> \o SubSeq(s, x + 1, Len(s))
            ELSE << "&" >> \o s

\* html.unescape: one left-to-right pass of _charref.sub
RECURSIVE UnescapeFrom(_, _)
UnescapeFrom(s, i) ==
    IF i > Len(s) THEN << >>
    ELSE IF s[i] = "&"
         THEN LET n == RunLen(s, i + 1, "ref", 32)
                  semi == IF n > 0 /\ i + n + 1 <= Len(s) /\ s[i + n + 1] = ";"
                          THEN 1 ELSE 0
              IN IF n = 0
                 THEN << "&" >> \o UnescapeFrom(s, i + 1)
                 ELSE replace_charref(SubSeq(s, i + 1, i + n + semi))
                      \o UnescapeFrom(s, i + n + semi + 1)
         ELSE << s[i] >> \o UnescapeFrom(s, i + 1)

unescape(s) == IF \E i \in 1..Len(s) : s[i] = "&" THEN UnescapeFrom(s, 1) ELSE s

\* re.sub(r"@\w+(?:@[-.\w]+)?", "", text)
RECURSIVE SubMentions(_, _)
SubMentions(s, i) ==
    IF i > Len(s) THEN << >>
    ELSE LET w == IF s[i] = "@" THEN RunLen(s, i + 1, "word", Len(s)) ELSE 0
             j == i + w + 1
             d == IF w > 0 /\ j <= Len(s) /\ s[j] = "@"
                  THEN RunLen(s, j + 1, "dom", Len(s)) ELSE 0
         IN IF w = 0 THEN << s[i] >> \o SubMentions(s, i + 1)
            ELSE IF d = 0 THEN SubMentions(s, j)
            ELSE SubMentions(s, j + d + 1)

\* re.sub(r"#\w+", "", text)
RECURSIVE SubHashtags(_, _)
SubHashtags(s, i) ==
    IF i > Len(s) THEN << >>
    ELSE LET w == IF s[i] = "#" THEN RunLen(s, i + 1, "word", Len(s)) ELSE 0
         IN IF w = 0 THEN << s[i] >> \o SubHashtags(s, i + 1)
            ELSE SubHashtags(s, i + w + 1)

\* re.sub(r"<[^>]+>", "", text)
RECURSIVE SubTags(_, _)
SubTags(s, i) ==
    IF i > Len(s) THEN << >>
    ELSE LET n == IF s[i] = "<" THEN RunLen(s, i + 1, "tag", Len(s)) ELSE 0
             closed == n > 0 /\ i + n + 1 <= Len(s)
         IN IF closed THEN SubTags(s, i + n + 2)
            ELSE << s[i] >> \o SubTags(s, i + 1)

\* " ".join(text.split())
RECURSIVE JoinSplit(_, _, _)
JoinSplit(s, i, pending) ==
    IF i > Len(s) THEN << >>
    ELSE IF IsSpace(s[i]) THEN JoinSplit(s, i + 1, TRUE)
    ELSE (IF pending THEN << " " >> ELSE << >>) \o << s[i] >>
         \o JoinSplit(s, i + 1, FALSE)

RECURSIVE LStrip(_)
LStrip(s) == IF s # << >> /\ IsSpace(s[1]) THEN LStrip(Tail(s)) ELSE s

strip_html(text_html) ==
    LET t1 == unescape(text_html)
        t2 == SubMentions(t1, 1)
        t3 == SubHashtags(t2, 1)
        t4 == SubTags(t3, 1)
        t5 == JoinSplit(LStrip(t4), 1, FALSE)
    IN t5

\* ------------------------------------------------------------------------
\* Run-length strings: the handle, the generated body, the fixed sentences
\* ------------------------------------------------------------------------
Str(k, n) == IF n = 0 THEN << >> ELSE << [k |-> k, n |-> n] >>

RECURSIVE TLen(_)
TLen(t) == IF t = << >> THEN 0 ELSE t[1].n + TLen(Tail(t))

\* t[:n]
RECURSIVE TTake(_, _)
TTake(t, n) ==
    IF n <= 0 \/ t = << >> THEN << >>
    ELSE IF t[1].n <= n THEN << t[1] >> \o TTake(Tail(t), n - t[1].n)
    ELSE << [k |-> t[1].k, n |-> n] >>

SafetySentence == Str("safety", SafetySentenceLen)

TroubleSentence == Str("trouble", TroubleSentenceLen)

\* f"@{sender_acct} {gemini_reply_text}"
MentionPrefix(acct) == Str("@", 1) \o acct \o Str(" ", 1)

\* the composer truncating already at max_len characters
ComposeReplyCutsAtBudget(acct, body) ==
    LET reply_text == MentionPrefix(acct) \o body
    IN IF TLen(reply_text) >= max_len
       THEN TTake(reply_text, max_len) \o Str("...", EllipsisLen)
       ELSE reply_text

\* lines 164-171: prefix the mention, truncate to max_len and mark
ComposeReply(acct, body) ==
    LET reply_text == MentionPrefix(acct) \o body
    IN IF TLen(reply_text) > max_len
       THEN TTake(reply_text, max_len) \o Str("...", EllipsisLen)
       ELSE reply_text

\* line 195
ApologyText(acct) == Str("@", 1) \o acct \o Str("apology", ApologySentenceLen)

\* ------------------------------------------------------------------------
\* Inputs: stream events, random draws, Gemini outcomes
\* ------------------------------------------------------------------------
Null == 0

\* ids of the statuses the stream delivers (status 3 is only ever boosted)
StatusIds == {1, 2}

\* who wrote which status: status 1 is one of the bot's own posts
AuthorOf(id) == IF id = 1 THEN BOT_ACCOUNT_ID ELSE id + 5

Visibilities == {"public", "unlisted", "private", "direct"}

\* lengths of status["account"]["acct"]: a local user, the longest user@domain
AcctLens == {5, 284}

Contents ==
    { << >>,
      << "a" >>,
      << "<", "p", ">", "@", "a", "l", " ", "#", "t", "<", "p", ">" >>,
      << "a", " ", " ", "&", "l", "t", ";", "t" >> }

\* a status as delivered to on_update; has_account / has_content tell
\* whether the dict carries the "account" / "content" key at all
Events ==
    { [id |-> i, has_account |-> ha, acct |-> Str("acct", h),
       in_reply_to_id |-> r, visibility |-> v, reblog |-> b,
       has_content |-> hc, content |-> c] :
        i \in StatusIds, ha \in BOOLEAN, h \in AcctLens, r \in {Null, 2},
        v \in Visibilities, b \in {Null, 3}, hc \in BOOLEAN, c \in Contents }

WellFormed(e) ==
    /\ e.has_content \/ e.content = << >>
    /\ e.has_account \/ e.acct = Str("acct", 5)

\* status.get("account", {}).get("id")
AccountId(st) == IF st.has_account THEN AuthorOf(st.id) ELSE Null

\* random.random(), in hundredths of [0,1)
Draws == {0, 50, 94, 95, 96, 99}

\* lengths of response.text: empty, short, a reply of exactly max_len and of
\* max_len + 1 characters for a five-character handle, long
BodyLens == {0, 10, 483, 484, 600}

\* what gemini_model.generate_content does: raise, or return a response
\* whose .text is readable, raises ValueError, or raises something else
GenOutcomes ==
    { [kind |-> "raise", text |-> << >>, block_reason |-> FALSE] }
    \cup { [kind |-> "text", text |-> Str("body", n), block_reason |-> FALSE] :
             n \in BodyLens }
    \cup { [kind |-> "notext", text |-> << >>, block_reason |-> b] :
             b \in BOOLEAN }
    \cup { [kind |-> "broken", text |-> << >>, block_reason |-> FALSE] }

NoEvent ==
    [id |-> Null, has_account |-> FALSE, acct |-> Str("acct", 5),
     in_reply_to_id |-> Null, visibility |-> "public", reblog |-> Null,
     has_content |-> FALSE, content |-> << >>]

NoResponse == [kind |-> "none", text |-> << >>, block_reason |-> FALSE]

\* ------------------------------------------------------------------------
\* State
\* ------------------------------------------------------------------------
VARIABLES
    stream,             \* "running" | "terminated": mastodon.stream_public
    processed,          \* number of events delivered so far
    pc,                 \* position inside on_update, "idle" between events
    status,             \* the argument of on_update
    outcome,            \* "none" | "running" | "returned" | "raised"
    passed,             \* set of gates the event got through
    draw,               \* value of random.random(), -1 before the draw
    sender_acct, status_id, content_html, plain_content,
    response, gemini_reply_text, reply_text,
    genCalls,           \* calls of generate_content for this event
    posts,              \* calls of mastodon.status_post for this event
    raisedAt            \* steps of this event at which an exception was raised

vars == << stream, processed, pc, status, outcome, passed, draw, sender_acct,
           status_id, content_html, plain_content, response,
           gemini_reply_text, reply_text, genCalls, posts, raisedAt >>

locals == << sender_acct, status_id, content_html, plain_content, response,
             gemini_reply_text, reply_text >>

Init ==
    /\ stream = "running"
    /\ processed = 0
    /\ pc = "idle"
    /\ status = NoEvent
    /\ outcome = "none"
    /\ passed = {}
    /\ draw = -1
    /\ sender_acct = << >>
    /\ status_id = Null
    /\ content_html = << >>
    /\ plain_content = << >>
    /\ response = NoResponse
    /\ gemini_reply_text = << >>
    /\ reply_text = << >>
    /\ genCalls = 0
    /\ posts = << >>
    /\ raisedAt = {}

\* ------------------------------------------------------------------------
\* on_update, step by step
\* ------------------------------------------------------------------------
\* "return" from on_update
Return ==
    /\ pc' = "idle"
    /\ outcome' = "returned"
    /\ UNCHANGED << stream, processed, status >>

\* an exception leaves on_update: stream_public re-raises it, the main
\* block logs it and the bot shuts down
Propagate ==
    /\ pc' = "idle"
    /\ outcome' = "raised"
    /\ stream' = "terminated"
    /\ UNCHANGED << processed, status >>

\* the stream hands the next status to on_update
Deliver(ev) ==
    /\ stream = "running"
    /\ pc = "idle"
    /\ processed < MaxEvents
    /\ processed' = processed + 1
    /\ status' = ev
    /\ pc' = "filter"
    /\ outcome' = "running"
    /\ passed' = {}
    /\ draw' = -1
    /\ sender_acct' = << >>
    /\ status_id' = Null
    /\ content_html' = << >>
    /\ plain_content' = << >>
    /\ response' = NoResponse
    /\ gemini_reply_text' = << >>
    /\ reply_text' = << >>
    /\ genCalls' = 0
    /\ posts' = << >>
    /\ raisedAt' = {}
    /\ UNCHANGED stream

\* the filter of a mention listener: own posts and boosts only
IneligibleMentionMode(st) ==
    \/ AccountId(st) = BOT_ACCOUNT_ID
    \/ st.reblog # Null

\* the filter without its own-account test
IneligibleNoSelfCheck(st) ==
    \/ st.in_reply_to_id # Null
    \/ st.visibility # "public"
    \/ st.reblog # Null

\* the filter without its visibility test
IneligibleNoVisibilityCheck(st) ==
    \/ st.in_reply_to_id # Null
    \/ AccountId(st) = BOT_ACCOUNT_ID
    \/ st.reblog # Null

\* lines 92-97: the condition under which the status is ignored
Ineligible(st) ==
    \/ st.in_reply_to_id # Null
    \/ AccountId(st) = BOT_ACCOUNT_ID
    \/ st.visibility # "public"
    \/ st.reblog # Null

\* the filter with its "return" missing: an ignored status falls through
FilterFallsThrough ==
    /\ pc = "filter"
    /\ pc' = "sample"
    /\ passed' = IF Ineligible(status) THEN passed ELSE passed \cup {"filter"}
    /\ UNCHANGED << stream, processed, status, outcome, draw, locals,
                    genCalls, posts, raisedAt >>

Filter ==
    /\ pc = "filter"
    /\ IF Ineligible(status)
       THEN Return /\ UNCHANGED passed
       ELSE /\ pc' = "sample"
            /\ passed' = passed \cup {"filter"}
            /\ UNCHANGED << stream, processed, status, outcome >>
    /\ UNCHANGED << draw, locals, genCalls, posts, raisedAt >>

\* the comparison the other way round
SamplerDropsBelow(d) == d < DropThreshold

\* line 102
SamplerDrops(d) == d > DropThreshold

Sample(d) ==
    /\ pc = "sample"
    /\ draw' = d
    /\ IF SamplerDrops(d)
       THEN Return /\ UNCHANGED passed
       ELSE /\ pc' = "extract"
            /\ passed' = passed \cup {"sampler"}
            /\ UNCHANGED << stream, processed, status, outcome >>
    /\ UNCHANGED << locals, genCalls, posts, raisedAt >>

\* lines 107-110: status["account"]["acct"], status["id"], status["content"]
Extract ==
    /\ pc = "extract"
    /\ IF ~status.has_account
       THEN /\ Propagate
            /\ raisedAt' = raisedAt \cup {"extract"}
            /\ UNCHANGED << passed, sender_acct, status_id, content_html >>
       ELSE IF ~status.has_content
       THEN /\ Propagate
            /\ raisedAt' = raisedAt \cup {"extract"}
            /\ sender_acct' = status.acct
            /\ status_id' = status.id
            /\ UNCHANGED << passed, content_html >>
       ELSE /\ sender_acct' = status.acct
            /\ status_id' = status.id
            /\ content_html' = status.content
            /\ pc' = "sanitize"
            /\ passed' = passed \cup {"extract"}
            /\ UNCHANGED << stream, processed, status, outcome, raisedAt >>
    /\ UNCHANGED << draw, plain_content, response, gemini_reply_text,
                    reply_text, genCalls, posts >>

\* the sanitizing step without the test for empty text
SanitizeNoEmptyCheck ==
    /\ pc = "sanitize"
    /\ plain_content' = strip_html(content_html)
    /\ pc' = "generate"
    /\ passed' = passed \cup {"sanitizer"}
    /\ UNCHANGED << stream, processed, status, outcome, draw, sender_acct,
                    status_id, content_html, response, gemini_reply_text,
                    reply_text, genCalls, posts, raisedAt >>

\* lines 115-120
Sanitize ==
    /\ pc = "sanitize"
    /\ plain_content' = strip_html(content_html)
    /\ IF plain_content' = << >>
       THEN Return /\ UNCHANGED passed
       ELSE /\ pc' = "generate"
            /\ passed' = passed \cup {"sanitizer"}
            /\ UNCHANGED << stream, processed, status, outcome >>
    /\ UNCHANGED << draw, sender_acct, status_id, content_html, response,
                    gemini_reply_text, reply_text, genCalls, posts, raisedAt >>

\* the generation call outside any try block
GenerateRaisePropagates(r) ==
    /\ pc = "generate"
    /\ genCalls' = genCalls + 1
    /\ IF r.kind = "raise"
       THEN /\ Propagate
            /\ raisedAt' = raisedAt \cup {"generate"}
            /\ UNCHANGED response
       ELSE /\ pc' = "classify"
            /\ response' = r
            /\ UNCHANGED << stream, processed, status, outcome, raisedAt >>
    /\ UNCHANGED << passed, draw, sender_acct, status_id, content_html,
                    plain_content, gemini_reply_text, reply_text, posts >>

\* lines 123-129: response = gemini_model.generate_content(full_prompt)
Generate(r) ==
    /\ pc = "generate"
    /\ genCalls' = genCalls + 1
    /\ IF r.kind = "raise"
       THEN /\ pc' = "apology"
            /\ raisedAt' = raisedAt \cup {"generate"}
            /\ UNCHANGED response
       ELSE /\ pc' = "classify"
            /\ response' = r
            /\ UNCHANGED raisedAt
    /\ UNCHANGED << stream, processed, status, outcome, passed, draw,
                    sender_acct, status_id, content_html, plain_content,
                    gemini_reply_text, reply_text, posts >>

\* the classification telling the user the raw block reason
ReplyTextOfEchoesReason(r) ==
    IF r.kind = "text" THEN r.text
    ELSE IF r.block_reason
         THEN Str("blocked", 9) \o Str("block_reason", 6)
    ELSE TroubleSentence

\* the classification without the trouble-processing fallback
ReplyTextOfNoFallback(r) ==
    IF r.kind = "text" THEN r.text
    ELSE IF r.block_reason THEN SafetySentence
    ELSE << >>

\* lines 131-155: the text of a response that could be read or classified
ReplyTextOf(r) ==
    IF r.kind = "text" THEN r.text
    ELSE IF r.block_reason THEN SafetySentence
    ELSE TroubleSentence

Classify ==
    /\ pc = "classify"
    /\ IF response.kind = "broken"
       THEN /\ pc' = "apology"
            /\ raisedAt' = raisedAt \cup {"classify"}
            /\ UNCHANGED gemini_reply_text
       ELSE /\ pc' = "compose"
            /\ gemini_reply_text' = ReplyTextOf(response)
            /\ UNCHANGED raisedAt
    /\ UNCHANGED << stream, processed, status, outcome, passed, draw,
                    sender_acct, status_id, content_html, plain_content,
                    response, reply_text, genCalls, posts >>

\* lines 160-171 and 181-184
Compose ==
    /\ pc = "compose"
    /\ IF gemini_reply_text # << >>
       THEN /\ reply_text' = ComposeReply(sender_acct, gemini_reply_text)
            /\ pc' = "post"
            /\ passed' = passed \cup {"composer"}
            /\ UNCHANGED << stream, processed, status, outcome >>
       ELSE Return /\ UNCHANGED << reply_text, passed >>
    /\ UNCHANGED << draw, sender_acct, status_id, content_html, plain_content,
                    response, gemini_reply_text, genCalls, posts, raisedAt >>

\* the reply posted as a direct message
PostReplyDirect(ok) ==
    /\ pc = "post"
    /\ posts' = Append(posts, [kind |-> "reply", text |-> reply_text,
                               in_reply_to_id |-> status_id,
                               visibility |-> "direct", ok |-> ok])
    /\ IF ok
       THEN Return /\ UNCHANGED raisedAt
       ELSE /\ pc' = "apology"
            /\ raisedAt' = raisedAt \cup {"post"}
            /\ UNCHANGED << stream, processed, status, outcome >>
    /\ UNCHANGED << passed, draw, locals, genCalls >>

\* the apology sent after every reply, posted or not
PostReplyThenApology(ok) ==
    /\ pc = "post"
    /\ posts' = Append(posts, [kind |-> "reply", text |-> reply_text,
                               in_reply_to_id |-> status_id,
                               visibility |-> "unlisted", ok |-> ok])
    /\ pc' = "apology"
    /\ raisedAt' = IF ok THEN raisedAt ELSE raisedAt \cup {"post"}
    /\ UNCHANGED << stream, processed, status, outcome >>
    /\ UNCHANGED << passed, draw, locals, genCalls >>

\* lines 173-180: mastodon.status_post of the reply; ok = it did not raise
PostReply(ok) ==
    /\ pc = "post"
    /\ posts' = Append(posts, [kind |-> "reply", text |-> reply_text,
                               in_reply_to_id |-> status_id,
                               visibility |-> "unlisted", ok |-> ok])
    /\ IF ok
       THEN Return /\ UNCHANGED raisedAt
       ELSE /\ pc' = "apology"
            /\ raisedAt' = raisedAt \cup {"post"}
            /\ UNCHANGED << stream, processed, status, outcome >>
    /\ UNCHANGED << passed, draw, locals, genCalls >>

\* the except block without an apology post
PostApologySkipped(ok) ==
    /\ pc = "apology"
    /\ Return
    /\ UNCHANGED << passed, draw, locals, genCalls, posts, raisedAt >>

\* the except block posting the apology again when the post fails
PostApologyRetried(ok) ==
    /\ pc = "apology"
    /\ posts' = Append(posts, [kind |-> "apology",
                               text |-> ApologyText(sender_acct),
                               in_reply_to_id |-> status_id,
                               visibility |-> "direct", ok |-> ok])
    /\ raisedAt' = IF ok THEN raisedAt ELSE raisedAt \cup {"apology"}
    /\ IF ok THEN Return
       ELSE UNCHANGED << pc, outcome, stream, processed, status >>
    /\ UNCHANGED << passed, draw, locals, genCalls >>

\* lines 186-201: the except block and its own try/except
PostApology(ok) ==
    /\ pc = "apology"
    /\ posts' = Append(posts, [kind |-> "apology",
                               text |-> ApologyText(sender_acct),
                               in_reply_to_id |-> status_id,
                               visibility |-> "direct", ok |-> ok])
    /\ raisedAt' = IF ok THEN raisedAt ELSE raisedAt \cup {"apology"}
    /\ Return
    /\ UNCHANGED << passed, draw, locals, genCalls >>

Next ==
    \/ \E ev \in Events : WellFormed(ev) /\ Deliver(ev)
    \/ Filter
    \/ \E d \in Draws : Sample(d)
    \/ Extract
    \/ Sanitize
    \/ \E r \in GenOutcomes : Generate(r)
    \/ Classify
    \/ Compose
    \/ \E ok \in BOOLEAN : PostReply(ok)
    \/ \E ok \in BOOLEAN : PostApology(ok)

Spec == Init /\ [][Next]_vars

\* ------------------------------------------------------------------------
\* Properties
\* ------------------------------------------------------------------------
Ended == pc = "idle" /\ processed > 0

Replies == { i \in 1..Len(posts) : posts[i].kind = "reply" }

Apologies == { i \in 1..Len(posts) : posts[i].kind = "apology" }

\* the four conditions of the public-timeline filter, on the status itself
TopLevel(st) == st.in_reply_to_id = Null

NotOwn(st) == AccountId(st) # BOT_ACCOUNT_ID

Public(st) == st.visibility = "public"

NotBoost(st) == st.reblog = Null

\* C1: no post call, reply or apology, is ever made in reply to a status
\* written by the bot's own account.
C1_NoReplyToOwnStatus ==
    \A i \in 1..Len(posts) : AuthorOf(posts[i].in_reply_to_id) # BOT_ACCOUNT_ID

\* an otherwise eligible status of the bot itself was processed: nothing
\* was generated or posted for it
C1_Witness ==
    /\ Ended
    /\ status.has_account /\ AuthorOf(status.id) = BOT_ACCOUNT_ID
    /\ TopLevel(status) /\ Public(status) /\ NotBoost(status)
    /\ status.has_content /\ strip_html(status.content) # << >>
    /\ posts = << >>

\* C2: an exception raised at any step of the chain is caught inside
\* on_update: on_update returns normally and the stream keeps running.
C2_EveryExceptionContained ==
    raisedAt # {} => (outcome # "raised" /\ stream = "running")

C4_PostedTextWithinBudget ==
    \A i \in 1..Len(posts) : TLen(posts[i].text) <= max_len

\* C5: at most two post calls per event, at most one of them the primary
\* reply and at most one the apology; neither is retried.
C5_AtMostOneReplyOneApology ==
    /\ Len(posts) <= 2
    /\ Cardinality(Replies) <= 1
    /\ Cardinality(Apologies) <= 1
    /\ \A i \in Replies : \A j \in Apologies : i < j

\* both the primary post and the apology post failed, and processing ended
C5_Witness ==
    /\ Ended /\ Len(posts) = 2
    /\ ~posts[1].ok /\ ~posts[2].ok
    /\ raisedAt = {"post", "apology"}

\* the status with one of its four conditions changed
OneConditionChanged(st) ==
    { [st EXCEPT !.in_reply_to_id = 2] }
    \cup { [st EXCEPT !.id = 1, !.has_account = TRUE] }
    \cup { [st EXCEPT !.visibility = v] : v \in Visibilities \ {"public"} }
    \cup { [st EXCEPT !.reblog = 3] }

\* C6: a status passes the filter exactly when it is top-level, not the
\* bot's own, public and not a boost; changing any one of the four
\* conditions of a passing status makes the filter reject it.
C6_FilterIffFourConditions ==
    (processed > 0 /\ pc # "filter")
        => /\ ("filter" \in passed)
                <=> (TopLevel(status) /\ NotOwn(status)
                     /\ Public(status) /\ NotBoost(status))
           /\ ("filter" \in passed)
                => \A v \in OneConditionChanged(status) : Ineligible(v)

\* a status has just passed the filter and waits for the sampler
C6_Witness ==
    /\ pc = "sample" /\ "filter" \in passed
    /\ TopLevel(status) /\ NotOwn(status) /\ Public(status) /\ NotBoost(status)

\* C7: an eligible event gets past the sampler only when its draw lies in
\* the top 5% of [0,1); every other eligible event is dropped.
C7_OnlyTopFivePercentProceed ==
    ("filter" \in passed /\ draw # -1)
        => (("sampler" \in passed) <=> draw >= DropThreshold)

C9_DroppedEventsAreSilent ==
    (processed > 0
     /\ (Ineligible(status) \/ (draw # -1 /\ SamplerDrops(draw))))
        => /\ genCalls = 0
           /\ posts = << >>
           /\ plain_content = << >>

\* an eligible event was dropped by the sampler
C9_Witness ==
    /\ Ended /\ "filter" \in passed /\ "sampler" \notin passed
    /\ draw = 96 /\ outcome = "returned"

EmptyNoBlock(r) ==
    r.kind \in {"text", "notext"} /\ r.text = << >> /\ ~r.block_reason

FromTryBlock == {"generate", "classify", "post"}

\* C12: when the generation call raises, no primary reply is posted, exactly
\* one apology post is attempted, with direct visibility and in reply to
\* the originating status, and on_update returns normally.
C12_GenerationFailureApologisesOnce ==
    ("generate" \in raisedAt)
        => /\ {"filter", "sampler"} \subseteq passed /\ plain_content # << >>
           /\ Replies = {}
           /\ outcome # "raised" /\ stream = "running"
           /\ pc \in {"apology", "idle"}
           /\ pc = "apology" => posts = << >>
           /\ pc = "idle"
                => /\ outcome = "returned"
                   /\ Len(posts) = 1
                   /\ posts[1].kind = "apology"
                   /\ posts[1].visibility = "direct"
                   /\ posts[1].in_reply_to_id = status.id

\* the generation call raised and the apology went out
C12_Witness ==
    /\ Ended /\ raisedAt = {"generate"}
    /\ Len(posts) = 1 /\ posts[1].kind = "apology" /\ posts[1].ok

\* C13: the generation service is called at most once per event and only
\* with non-empty sanitized text; an event whose sanitized content is empty
\* causes no generation call and no post call.
C13_GenerateOnceOnNonEmptyText ==
    /\ genCalls <= 1
    /\ genCalls = 1
            => /\ plain_content # << >>
               /\ plain_content = strip_html(status.content)
    /\ ("extract" \in passed /\ pc # "sanitize"
        /\ strip_html(status.content) = << >>)
            => /\ Ended /\ outcome = "returned"
               /\ genCalls = 0
               /\ posts = << >>

\* content made of markup, a mention and a hashtag only was skipped
C13_Witness ==
    /\ Ended /\ "extract" \in passed /\ "sanitizer" \notin passed
    /\ status.content # << >> /\ plain_content = << >>
    /\ genCalls = 0 /\ posts = << >>

\* C14: every post call replies to the event's own status id; a primary
\* reply is unlisted, an apology is direct.
C14_ReplyTargetAndVisibility ==
    \A i \in 1..Len(posts) :
        /\ posts[i].in_reply_to_id = status.id
        /\ posts[i].kind = "reply" => posts[i].visibility = "unlisted"
        /\ posts[i].kind = "apology" => posts[i].visibility = "direct"

\* the primary post failed and the apology was posted
C14_Witness ==
    /\ Len(posts) = 2
    /\ posts[1].kind = "reply" /\ ~posts[1].ok
    /\ posts[2].kind = "apology" /\ posts[2].ok

\* C19: an apology post is attempted only after a step of the try block
\* raised; after a successful primary post no apology is made.
C19_ApologyOnlyAfterFailure ==
    /\ (Apologies # {} \/ pc = "apology") => raisedAt \cap FromTryBlock # {}
    /\ (\E i \in Replies : posts[i].ok)
            => /\ Apologies = {}
               /\ Ended /\ outcome = "returned"
               /\ raisedAt = {}

\* the primary reply was posted and nothing else
C19_Witness ==
    /\ Ended /\ raisedAt = {}
    /\ Len(posts) = 1 /\ posts[1].kind = "reply" /\ posts[1].ok

\* "@" + handle + " " + body, written out
Addressed(acct, body) == Str("@", 1) \o acct \o Str(" ", 1) \o body

\* C15: the composed reply is "@" + handle + " " + body; when that is longer
\* than 490 characters the output is its first 490 characters followed by
\* "...", otherwise it is that text unchanged, without ellipsis.
C15_ComposerContract ==
    ("composer" \in passed)
        => LET text == Addressed(sender_acct, gemini_reply_text)
               last == reply_text[Len(reply_text)]
           IN /\ TTake(reply_text, TLen(sender_acct) + 2)
                    = Str("@", 1) \o sender_acct \o Str(" ", 1)
              /\ TLen(text) > 490
                    => /\ TTake(reply_text, 490) = TTake(text, 490)
                       /\ TLen(reply_text) = 493
                       /\ last = [k |-> "...", n |-> 3]
              /\ TLen(text) <= 490
                    => /\ reply_text = text
                       /\ last.k # "..."

\* a reply of 491 characters was cut to 490 and marked
C15_Witness ==
    /\ "composer" \in passed
    /\ TLen(Addressed(sender_acct, gemini_reply_text)) = 491
    /\ TLen(reply_text) = 493
    /\ reply_text[Len(reply_text)].k = "..."

\* ------------------------------------------------------------------------
\* strip_html on its own: every short content string, sanitized twice
\* ------------------------------------------------------------------------
SanChars == {"@", "#", "<", ">", "&", " ", "l", "t"}

\* longer contents: Mastodon's mention and hashtag markup, entities with
\* and without semicolon, doubly encoded entities, qualified mentions
ExtraInputs ==
    { << "<", "p", ">", "@", "<", "a", ">", "l", "<", "a", ">", " ", "t",
         "<", "p", ">" >>,
      << "#", "<", "a", ">", "t", "<", "a", ">", " ", " ", "l" >>,
      << "&", "a", "m", "p", ";", "l", "t", ";", "p", ">", "a" >>,
      << "&", "l", "t", ";", "a", " ", "&", "a", "m", "p", ";", " ", "t" >>,
      << "@", "a", "@", "m", "-", "p", ".", "t", " ", "\n", " ", "l" >>,
      << "l", " ", "&", "p", "m", ";", " ", "t" >> }

SanInputs ==
    UNION { [1..n -> SanChars] : n \in 0..MaxStrLen } \cup ExtraInputs

\* content_html holds the input of the latest strip_html call and
\* plain_content its output
SanInit ==
    /\ stream = "running"
    /\ processed = 0
    /\ pc = "san0"
    /\ status = NoEvent
    /\ outcome = "none"
    /\ passed = {}
    /\ draw = -1
    /\ sender_acct = << >>
    /\ status_id = Null
    /\ content_html \in SanInputs
    /\ plain_content = << >>
    /\ response = NoResponse
    /\ gemini_reply_text = << >>
    /\ reply_text = << >>
    /\ genCalls = 0
    /\ posts = << >>
    /\ raisedAt = {}

\* plain_content = strip_html(content_html)
SanFirst ==
    /\ pc = "san0"
    /\ plain_content' = strip_html(content_html)
    /\ pc' = "san1"
    /\ UNCHANGED << stream, processed, status, outcome, passed, draw,
                    sender_acct, status_id, content_html, response,
                    gemini_reply_text, reply_text, genCalls, posts, raisedAt >>

\* strip_html applied to its own output
SanSecond ==
    /\ pc = "san1"
    /\ content_html' = plain_content
    /\ plain_content' = strip_html(plain_content)
    /\ pc' = "san2"
    /\ UNCHANGED << stream, processed, status, outcome, passed, draw,
                    sender_acct, status_id, response, gemini_reply_text,
                    reply_text, genCalls, posts, raisedAt >>

SanNext == SanFirst \/ SanSecond

SanSpec == SanInit /\ [][SanNext]_vars

\* a match of @\w+ : a mention token
HasMention(s) ==
    \E i \in 1..(Len(s) - 1) : s[i] = "@" /\ IsWord(s[i + 1])

\* a match of #\w+ : a hashtag token
HasHashtag(s) ==
    \E i \in 1..(Len(s) - 1) : s[i] = "#" /\ IsWord(s[i + 1])

\* a "<", some characters and a ">"
HasTagSpan(s) ==
    \E i \in 1..Len(s) : \E j \in (i + 2)..Len(s) :
        s[i] = "<" /\ s[j] = ">"

HasSpaceRun(s) ==
    \E i \in 1..(Len(s) - 1) : IsSpace(s[i]) /\ IsSpace(s[i + 1])

\* C16: the output of strip_html contains no mention token, no hashtag
\* token, no angle-bracket span and no run of two or more whitespace
\* characters.
C16_OutputIsClean ==
    pc = "san1"
        => /\ ~HasMention(plain_content)
           /\ ~HasHashtag(plain_content)
           /\ ~HasTagSpan(plain_content)
           /\ ~HasSpaceRun(plain_content)

\* C17: strip_html is idempotent: sanitizing its output again changes
\* nothing.
C17_Idempotent ==
    pc = "san2" => plain_content = content_html

====
